---- MODULE Spec2Model ----
(***************************************************************************)
(* A model of pa1.c, a one-line-at-a-time MIPS assembler: main() reads a   *)
(* line with fgets, lowercases it, parse_command() splits it in place into *)
(* tokens, translate() encodes the tokens as a 32-bit instruction word and *)
(* main prints the word.                                                   *)
(*                                                                         *)
(* Representation.  A character is a one-character string and a C string   *)
(* is a sequence of characters; NUL is the terminator.  An int is a TLA+   *)
(* integer in -2^31 .. 2^31-1.  An unsigned int (an instruction word) is a *)
(* function from bit position 0..31 to {0,1}, because the words of this    *)
(* program (opcode << 26) do not fit the integers TLC computes with.       *)
(***************************************************************************)
EXTENDS Integers, Sequences, FiniteSets, TLC

(***************************************************************************)
(* Program constants.                                                      *)
(***************************************************************************)
MAX_NR_TOKENS == 16
MAX_ASSEMBLY == 128

NUL == "NUL"
NULL == 0

(***************************************************************************)
(* <ctype.h>: isspace and tolower in the "C" locale.                       *)
(***************************************************************************)
isspace(c) == c \in {" ", "\t", "\n", "\r", "\f"}

UpperCase == <<"A","B","C","D","E","F","G","H","I","J","K","L","M",
               "N","O","P","Q","R","S","T","U","V","W","X","Y","Z">>
LowerCase == <<"a","b","c","d","e","f","g","h","i","j","k","l","m",
               "n","o","p","q","r","s","t","u","v","w","x","y","z">>

tolower(c) ==
  IF \E i \in 1..26 : UpperCase[i] = c
  THEN LowerCase[CHOOSE i \in 1..26 : UpperCase[i] = c]
  ELSE c

(***************************************************************************)
(* 32-bit words and the C operators translate() applies to them.           *)
(***************************************************************************)
BitPos == 0..31

\* 2^k for k in 0..30
RECURSIVE Pow2(_)
Pow2(k) == IF k = 0 THEN 1 ELSE 2 * Pow2(k - 1)

\* Bit k of the two's-complement representation of the int n.
IntBit(n, k) ==
  IF n >= 0
  THEN (IF k = 31 THEN 0 ELSE (n \div Pow2(k)) % 2)
  ELSE (IF k = 31 THEN 1 ELSE 1 - ((((-n) - 1) \div Pow2(k)) % 2))

\* The bit pattern of an int (what the conversion to unsigned int keeps).
IntToBits(n) == [k \in BitPos |-> IntBit(n, k)]

\* The int a bit pattern stands for (two's complement).
RECURSIVE BitsLow(_, _)
BitsLow(w, k) == IF k < 0 THEN 0 ELSE w[k] * Pow2(k) + BitsLow(w, k - 1)
RECURSIVE BitsLowInv(_, _)
BitsLowInv(w, k) == IF k < 0 THEN 0 ELSE (1 - w[k]) * Pow2(k) + BitsLowInv(w, k - 1)
BitsToInt(w) == IF w[31] = 0 THEN BitsLow(w, 30) ELSE (-BitsLowInv(w, 30)) - 1

\* a << n on a 32-bit int: the bits shifted out at the top are lost.
ShiftLeft(w, n) == [k \in BitPos |-> IF k >= n THEN w[k - n] ELSE 0]
\* a | b
BitOr(a, b) == [k \in BitPos |-> IF a[k] = 1 \/ b[k] = 1 THEN 1 ELSE 0]
\* a & b
BitAnd(a, b) == [k \in BitPos |-> IF a[k] = 1 /\ b[k] = 1 THEN 1 ELSE 0]

(***************************************************************************)
(* strtol(s, NULL, 0): optional white space, optional sign, then a "0x"    *)
(* prefix selects base 16, a leading "0" base 8, anything else base 10;    *)
(* the digits valid in the base are accumulated and the first other        *)
(* character ends the number; no digit at all gives 0.  DigitVal gives 16 *)
(* for a character that is a digit in no base.  The tokens of this model   *)
(* stay far inside the range of long and of int, so neither the clamping   *)
(* to LONG_MAX nor the narrowing of the (int) cast changes a value.        *)
(***************************************************************************)
Digits == <<"0","1","2","3","4","5","6","7","8","9",
            "a","b","c","d","e","f">>
UpperDigits == <<"0","1","2","3","4","5","6","7","8","9",
                 "A","B","C","D","E","F">>
DigitVal(c) ==
  IF \E i \in 1..16 : Digits[i] = c
  THEN (CHOOSE i \in 1..16 : Digits[i] = c) - 1
  ELSE IF \E i \in 1..16 : UpperDigits[i] = c
  THEN (CHOOSE i \in 1..16 : UpperDigits[i] = c) - 1
  ELSE 16

RECURSIVE SkipSpace(_, _)
SkipSpace(s, i) ==
  IF i <= Len(s) /\ isspace(s[i]) THEN SkipSpace(s, i + 1) ELSE i

RECURSIVE Accumulate(_, _, _, _)
Accumulate(s, i, base, acc) ==
  IF i > Len(s) \/ DigitVal(s[i]) >= base
  THEN acc
  ELSE Accumulate(s, i + 1, base, acc * base + DigitVal(s[i]))

strtol(s) ==
  LET i0 == SkipSpace(s, 1)
      signed == i0 <= Len(s) /\ s[i0] \in {"-", "+"}
      neg == i0 <= Len(s) /\ s[i0] = "-"
      i1 == IF signed THEN i0 + 1 ELSE i0
      hex == /\ i1 + 2 <= Len(s)
             /\ s[i1] = "0"
             /\ s[i1 + 1] \in {"x", "X"}
             /\ DigitVal(s[i1 + 2]) < 16
      base == IF hex THEN 16
              ELSE IF i1 <= Len(s) /\ s[i1] = "0" THEN 8 ELSE 10
      start == IF hex THEN i1 + 2 ELSE i1
      mag == Accumulate(s, start, base, 0)
  IN  IF neg THEN -mag ELSE mag

(***************************************************************************)
(* The static tables.  A C array a[] is the sequence a with a[i] of the C  *)
(* code at position i + 1.                                                 *)
(***************************************************************************)
registers == <<
  <<"z","e","r","o">>, <<"a","t">>, <<"v","0">>, <<"v","1">>,
  <<"a","0">>, <<"a","1">>, <<"a","2">>, <<"a","3">>,
  <<"t","0">>, <<"t","1">>, <<"t","2">>, <<"t","3">>,
  <<"t","4">>, <<"t","5">>, <<"t","6">>, <<"t","7">>,
  <<"s","0">>, <<"s","1">>, <<"s","2">>, <<"s","3">>,
  <<"s","4">>, <<"s","5">>, <<"s","6">>, <<"s","7">>,
  <<"t","8">>, <<"t","9">>, <<"k","1">>, <<"k","2">>,
  <<"g","p">>, <<"s","p">>, <<"f","p">>, <<"r","a">>>>

\* R-format
r_instructions == <<
  <<"a","d","d">>, <<"s","u","b">>, <<"a","n","d">>, <<"o","r">>, <<"n","o","r">>>>
r_funct == <<32, 34, 36, 37, 39>>

\* R-format (shift)
r_shift_instructions == <<
  <<"s","l","l">>, <<"s","r","l">>, <<"s","r","a">>>>
r_shift_funct == <<0, 2, 3>>

\* I-format
i_instructions == <<
  <<"a","d","d","i">>, <<"a","n","d","i">>, <<"o","r","i">>, <<"l","w">>, <<"s","w">>, <<"b","e","q">>, <<"b","n","e">>>>
i_opcodes == <<8, 12, 13, 35, 43, 4, 5>>

(***************************************************************************)
(* The scan "for (i = 0; i < n; i++) if (strcmp(token, table[i]) == 0)":   *)
(* the first C index i < n whose entry equals token, or -1 when the loop   *)
(* runs to its end.                                                        *)
(***************************************************************************)
RECURSIVE ScanFrom(_, _, _, _)
ScanFrom(token, table, i, n) ==
  IF i >= n THEN -1
  ELSE IF token = table[i + 1] THEN i
  ELSE ScanFrom(token, table, i + 1, n)

\* detectType with the I-format loop one turn short (i < 6): bne is missed.
detectType_ShortScan(token, uninit) ==
  LET r == ScanFrom(token, r_instructions, 0, 5)
      s == ScanFrom(token, r_shift_instructions, 0, 3)
      i == ScanFrom(token, i_instructions, 0, 6)
  IN  IF r >= 0 THEN [type |-> 0, opcode |-> r_funct[r + 1]]
      ELSE IF s >= 0 THEN [type |-> 1, opcode |-> r_shift_funct[s + 1]]
      ELSE IF i >= 0 THEN [type |-> 2, opcode |-> i_opcodes[i + 1]]
      ELSE [type |-> -1, opcode |-> uninit]

(***************************************************************************)
(* detectType(): info.type starts at -1 and info.opcode is not             *)
(* initialised; uninit is the value the opcode field happens to hold, and  *)
(* is what the caller gets when no table has the token.                    *)
(***************************************************************************)
detectType(token, uninit) ==
  LET r == ScanFrom(token, r_instructions, 0, 5)
      s == ScanFrom(token, r_shift_instructions, 0, 3)
      i == ScanFrom(token, i_instructions, 0, 7)
  IN  IF r >= 0 THEN [type |-> 0, opcode |-> r_funct[r + 1]]
      ELSE IF s >= 0 THEN [type |-> 1, opcode |-> r_shift_funct[s + 1]]
      ELSE IF i >= 0 THEN [type |-> 2, opcode |-> i_opcodes[i + 1]]
      ELSE [type |-> -1, opcode |-> uninit]

\* getRegisterNum counting the entries from 1.
getRegisterNum_OneBased(token) ==
  LET i == ScanFrom(token, registers, 0, 32)
  IN  IF i >= 0 THEN i + 1 ELSE 0

(***************************************************************************)
(* getRegisterNum(): the index of the first entry equal to token, and 0    *)
(* when the loop ends without a match.                                     *)
(***************************************************************************)
getRegisterNum(token) ==
  LET i == ScanFrom(token, registers, 0, 32)
  IN  IF i >= 0 THEN i ELSE 0

(***************************************************************************)
(* translate(), the three packing rules.  t1, t2, t3 are the strings at    *)
(* tokens[1], tokens[2], tokens[3].  The operands are ints; each shift and *)
(* or is taken on the 32-bit pattern, a left shift keeping the low 32 bits *)
(* of the product (what every two's-complement build computes for         *)
(* opcode << 26 and for a negative shamt << 6).                            *)
(***************************************************************************)
\* PackR with rs and rt in each other's field.
PackR_SourcesSwapped(opcode, t1, t2, t3) ==
  LET rd == getRegisterNum(t1)
      rs == getRegisterNum(t2)
      rt == getRegisterNum(t3)
  IN  BitOr(BitOr(BitOr(ShiftLeft(IntToBits(opcode), 0),
                        ShiftLeft(IntToBits(rd), 11)),
                  ShiftLeft(IntToBits(rs), 16)),
            ShiftLeft(IntToBits(rt), 21))

PackR(opcode, t1, t2, t3) ==
  LET rd == getRegisterNum(t1)
      rs == getRegisterNum(t2)
      rt == getRegisterNum(t3)
  IN  BitOr(BitOr(BitOr(ShiftLeft(IntToBits(opcode), 0),
                        ShiftLeft(IntToBits(rd), 11)),
                  ShiftLeft(IntToBits(rt), 16)),
            ShiftLeft(IntToBits(rs), 21))

PackShift(opcode, t1, t2, t3) ==
  LET rd == getRegisterNum(t1)
      rt == getRegisterNum(t2)
      shamt == strtol(t3)
  IN  BitOr(BitOr(BitOr(ShiftLeft(IntToBits(opcode), 0),
                        ShiftLeft(IntToBits(shamt), 6)),
                  ShiftLeft(IntToBits(rd), 11)),
            ShiftLeft(IntToBits(rt), 16))

PackI(opcode, t1, t2, t3) ==
  LET mem == opcode = 35 \/ opcode = 43
      rt == getRegisterNum(t1)
      rs == IF mem THEN getRegisterNum(t3) ELSE getRegisterNum(t2)
      parsed == IF mem THEN strtol(t2) ELSE strtol(t3)
      immediate == IF parsed < 0
                   THEN BitsToInt(BitAnd(IntToBits(parsed), IntToBits(65535)))
                   ELSE parsed
  IN  BitOr(BitOr(BitOr(ShiftLeft(IntToBits(immediate), 0),
                        ShiftLeft(IntToBits(rt), 16)),
                  ShiftLeft(IntToBits(rs), 21)),
            ShiftLeft(IntToBits(opcode), 26))

\* unsigned int code = 0, and the switch on the type.
translateWord(info, t1, t2, t3) ==
  CASE info.type = 0 -> PackR(info.opcode, t1, t2, t3)
    [] info.type = 1 -> PackShift(info.opcode, t1, t2, t3)
    [] info.type = 2 -> PackI(info.opcode, t1, t2, t3)
    [] OTHER -> IntToBits(0)

(***************************************************************************)
(* The lines main() is given.  A line is a sequence of characters, as      *)
(* fgets delivers it (the newline included).                               *)
(***************************************************************************)
MaxWords == 18
MaxGap == 2

RECURSIVE Join(_, _)
Join(words, sep) ==
  IF Len(words) = 0 THEN << >>
  ELSE IF Len(words) = 1 THEN words[1]
  ELSE words[1] \o sep \o Join(Tail(words), sep)

RECURSIVE Repeat(_, _)
Repeat(x, n) == IF n = 0 THEN << >> ELSE <<x>> \o Repeat(x, n - 1)

SeqToSet(q) == {q[i] : i \in 1..Len(q)}

RegTokens == {
  <<"z","e","r","o">>, <<"t","0">>, <<"t","1">>, <<"t","2">>, <<"k","0">>, <<"k","1">>, <<"s","p">>}

ImmTokens == {
  <<"-","3","2","7","6","8">>, <<"-","1">>, <<"0">>, <<"4">>, <<"3","2","7","6","7">>, <<"6","5","5","3","5">>, <<"6","5","5","3","6">>, <<"0","x","1","0">>}

ShamtTokens == {
  <<"-","1","6">>, <<"0">>, <<"2">>, <<"3","1">>, <<"3","2">>, <<"0","x","1","f">>}

UnknownMnemonics == {
  <<"f","o","o">>, <<"a","d","d","u">>, <<"a">>}

Mnemonics ==
  SeqToSet(r_instructions) \cup SeqToSet(r_shift_instructions)
    \cup SeqToSet(i_instructions)

\* The operand tokens a mnemonic is written with, in token order.
OperandTuples(m) ==
  IF m \in SeqToSet(r_instructions)
  THEN {<<a, b, c>> : a \in RegTokens, b \in RegTokens, c \in RegTokens}
  ELSE IF m \in SeqToSet(r_shift_instructions)
  THEN {<<a, b, c>> : a \in RegTokens, b \in RegTokens, c \in ShamtTokens}
  ELSE IF m \in {<<"l","w">>, <<"s","w">>}
  THEN {<<a, c, b>> : a \in RegTokens, b \in RegTokens, c \in ImmTokens}
  ELSE {<<a, b, c>> : a \in RegTokens, b \in RegTokens, c \in ImmTokens}

\* A mnemonic with its three operands, one space between tokens.
FullLines ==
  UNION {{Join(<<m>> \o ops, <<" ">>) \o <<"\n">> : ops \in OperandTuples(m)}
         : m \in Mnemonics}

\* A mnemonic with fewer operands than its format takes, and the empty line.
ShortLines ==
  {Join(<<m>> \o Repeat(<<"t","0">>, n), <<" ">>) \o <<"\n">>
     : m \in Mnemonics, n \in 0..2}
    \cup {<<"\n">>}

\* Up to MaxWords tokens, separated by runs of up to MaxGap blanks or tabs.
ManyWordLines ==
  {lead \o Join(Repeat(w, n), Repeat(b, g)) \o end
     : n \in 0..MaxWords, g \in 1..MaxGap, b \in {" ", "\t"},
       w \in UnknownMnemonics, lead \in {<< >>, <<" ">>},
       end \in {<< >>, <<"\n">>}}
    \ {<< >>}

\* Lines typed in capitals.
CapitalLines == {
  <<"A","D","D"," ","T","0"," ","T","1"," ","T","2","\n">>,
  <<"L","w"," ","T","0"," ","4"," ","S","P","\n">>}

Lines == FullLines \cup ShortLines \cup ManyWordLines \cup CapitalLines

\* What a read through a null pointer finds, on a build where it does not trap.
GarbageStrings == {<< >>, <<"1">>}
\* What the opcode field of an InstructionInfo never written holds.
UninitValues == {0, 35}

(***************************************************************************)
(* The state: the variables of main(), parse_command() and translate().    *)
(* tokens maps the C indices 0..MAX_NR_TOKENS-1 to a position in assembly  *)
(* (a char pointer) or NULL.  output is what translate() printed;          *)
(* highestRead is the highest index of tokens[] translate() has read.      *)
(***************************************************************************)
VARIABLES pc, assembly, tokens, nr_tokens, curr, token_started,
          info, instruction, output, highestRead

vars == <<pc, assembly, tokens, nr_tokens, curr, token_started,
          info, instruction, output, highestRead>>

NoTokens == [i \in 0..(MAX_NR_TOKENS - 1) |-> NULL]
NoInfo == [type |-> -1, opcode |-> 0]

\* The C string that starts at position p of buf.
RECURSIVE CStr(_, _)
CStr(buf, p) == IF buf[p] = NUL THEN << >> ELSE <<buf[p]>> \o CStr(buf, p + 1)

\* strlen(buf)
RECURSIVE strlen(_, _)
strlen(buf, p) == IF buf[p] = NUL THEN 0 ELSE 1 + strlen(buf, p + 1)

Take(q, n) == IF Len(q) <= n THEN q ELSE SubSeq(q, 1, n)

Init ==
  /\ pc = "fgets"
  /\ assembly = <<NUL>>
  /\ tokens = NoTokens
  /\ nr_tokens = 0
  /\ curr = 1
  /\ token_started = FALSE
  /\ info = NoInfo
  /\ instruction = IntToBits(0)
  /\ output = ""
  /\ highestRead = -1

(***************************************************************************)
(* main(): fgets stores at most MAX_ASSEMBLY - 1 characters and the        *)
(* terminator; the body then starts with tokens[] all NULL and nr_tokens 0.*)
(***************************************************************************)
Fgets ==
  /\ pc = "fgets"
  /\ \E line \in Lines : assembly' = Take(line, MAX_ASSEMBLY - 1) \o <<NUL>>
  /\ tokens' = NoTokens
  /\ nr_tokens' = 0
  /\ pc' = "tolower"
  /\ UNCHANGED <<curr, token_started, info, instruction, output, highestRead>>

\* fgets returns NULL at the end of the input and main returns.
EndOfInput ==
  /\ pc = "fgets"
  /\ pc' = "exit"
  /\ UNCHANGED <<assembly, tokens, nr_tokens, curr, token_started,
                 info, instruction, output, highestRead>>

\* for (i = 0; i < strlen(assembly); i++) assembly[i] = tolower(assembly[i]);
\* then the call of parse_command, which starts at the first character.
LowerCaseLine ==
  /\ pc = "tolower"
  /\ assembly' = [i \in 1..Len(assembly) |->
                    IF i <= strlen(assembly, 1) THEN tolower(assembly[i])
                    ELSE assembly[i]]
  /\ curr' = 1
  /\ token_started' = FALSE
  /\ nr_tokens' = 0
  /\ pc' = "parse"
  /\ UNCHANGED <<tokens, info, instruction, output, highestRead>>

(***************************************************************************)
(* parse_command(): one action per turn of the while loop.                 *)
(***************************************************************************)
\* isspace(*curr): the character becomes the terminator of the token before.
ParseSpace ==
  /\ pc = "parse"
  /\ assembly[curr] # NUL
  /\ isspace(assembly[curr])
  /\ assembly' = [assembly EXCEPT ![curr] = NUL]
  /\ token_started' = FALSE
  /\ curr' = curr + 1
  /\ UNCHANGED <<pc, tokens, nr_tokens, info, instruction, output, highestRead>>

\* A character inside a token already started.
ParseInToken ==
  /\ pc = "parse"
  /\ assembly[curr] # NUL
  /\ ~isspace(assembly[curr])
  /\ token_started
  /\ curr' = curr + 1
  /\ UNCHANGED <<pc, assembly, tokens, nr_tokens, token_started,
                 info, instruction, output, highestRead>>

\* The first character of a token: tokens[*nr_tokens] = curr; *nr_tokens += 1.
ParseTokenStart ==
  /\ pc = "parse"
  /\ assembly[curr] # NUL
  /\ ~isspace(assembly[curr])
  /\ ~token_started
  /\ nr_tokens < MAX_NR_TOKENS
  /\ tokens' = [tokens EXCEPT ![nr_tokens] = curr]
  /\ nr_tokens' = nr_tokens + 1
  /\ token_started' = TRUE
  /\ curr' = curr + 1
  /\ UNCHANGED <<pc, assembly, info, instruction, output, highestRead>>

\* The same store with *nr_tokens >= MAX_NR_TOKENS writes past the end of
\* main's tokens[]: undefined.  Either the write lands where nothing reads it
\* and the scan goes on, or the process is killed.
ParseTokenOverflow ==
  /\ pc = "parse"
  /\ assembly[curr] # NUL
  /\ ~isspace(assembly[curr])
  /\ ~token_started
  /\ nr_tokens >= MAX_NR_TOKENS
  /\ \/ /\ nr_tokens' = nr_tokens + 1
        /\ token_started' = TRUE
        /\ curr' = curr + 1
        /\ UNCHANGED pc
     \/ /\ pc' = "crashed"
        /\ UNCHANGED <<nr_tokens, token_started, curr>>
  /\ UNCHANGED <<assembly, tokens, info, instruction, output, highestRead>>

\* *curr == '\0': return 0, and main calls translate.
ParseReturn ==
  /\ pc = "parse"
  /\ assembly[curr] = NUL
  /\ pc' = "translate"
  /\ UNCHANGED <<assembly, tokens, nr_tokens, curr, token_started,
                 info, instruction, output, highestRead>>

(***************************************************************************)
(* translate().  It reads tokens[0], and for a mnemonic of the tables also *)
(* tokens[1], tokens[2] and tokens[3], whatever nr_tokens is.  An entry    *)
(* parse_command did not fill is NULL, and passing NULL to strcmp or       *)
(* strtol is undefined: the process traps, or the read finds some string g *)
(* and translate goes on.                                                  *)
(***************************************************************************)
Tok(i, g) == IF tokens[i] = NULL THEN g ELSE CStr(assembly, tokens[i])

\* The indices of tokens[] translate reads after tokens[0], in order.
ReadOrder(inf) ==
  IF inf.type = -1 THEN << >>
  ELSE IF inf.type = 2 /\ (inf.opcode = 35 \/ inf.opcode = 43)
  THEN <<1, 3, 2>>
  ELSE <<1, 2, 3>>

ReadsNull(inf) ==
  tokens[0] = NULL \/ \E k \in 1..Len(ReadOrder(inf)) : tokens[ReadOrder(inf)[k]] = NULL

FirstNullRead(inf) ==
  IF tokens[0] = NULL THEN 0
  ELSE LET order == ReadOrder(inf)
           k == CHOOSE j \in 1..Len(order) :
                  /\ tokens[order[j]] = NULL
                  /\ \A h \in 1..(j - 1) : tokens[order[h]] # NULL
       IN  order[k]

\* The body of translate with g for every string read through NULL and u for
\* the uninitialised opcode field.
Translated(g, u) ==
  LET inf == detectType(Tok(0, g), u)
  IN  /\ info' = inf
      /\ instruction' = translateWord(inf, Tok(1, g), Tok(2, g), Tok(3, g))
      /\ output' = IF inf.type \in {0, 1, 2} THEN "" ELSE "wrong command"
      /\ highestRead' = IF inf.type \in {0, 1, 2} THEN 3 ELSE 0
      /\ pc' = "print"
      /\ UNCHANGED <<assembly, tokens, nr_tokens, curr, token_started>>

\* Every token translate reads is there.
Translate ==
  /\ pc = "translate"
  /\ tokens[0] # NULL
  /\ \E u \in UninitValues :
       /\ ~ReadsNull(detectType(Tok(0, << >>), u))
       /\ Translated(<< >>, u)

\* A token translate reads is NULL and the read traps.
TranslateNullTrap ==
  /\ pc = "translate"
  /\ \E u \in UninitValues :
       LET inf == IF tokens[0] = NULL THEN info
                  ELSE detectType(Tok(0, << >>), u)
       IN  /\ ReadsNull(inf)
           /\ info' = inf
           /\ highestRead' = FirstNullRead(inf)
  /\ pc' = "crashed"
  /\ UNCHANGED <<assembly, tokens, nr_tokens, curr, token_started,
                 instruction, output>>

\* A token translate reads is NULL and the read finds the string g.
TranslateNullGarbage ==
  /\ pc = "translate"
  /\ \E g \in GarbageStrings, u \in UninitValues :
       /\ ReadsNull(IF tokens[0] = NULL THEN info ELSE detectType(Tok(0, g), u))
       /\ Translated(g, u)

\* fprintf(stderr, "0x%08x\n", instruction); the body ends, its variables
\* with it, and the next fgets overwrites assembly before anything reads it.
PrintInstruction ==
  /\ pc = "print"
  /\ pc' = "fgets"
  /\ assembly' = <<NUL>>
  /\ tokens' = NoTokens
  /\ nr_tokens' = 0
  /\ curr' = 1
  /\ token_started' = FALSE
  /\ info' = NoInfo
  /\ instruction' = IntToBits(0)
  /\ output' = ""
  /\ highestRead' = -1

Next ==
  \/ Fgets
  \/ EndOfInput
  \/ LowerCaseLine
  \/ ParseSpace
  \/ ParseInToken
  \/ ParseTokenStart
  \/ ParseTokenOverflow
  \/ ParseReturn
  \/ Translate
  \/ TranslateNullTrap
  \/ TranslateNullGarbage
  \/ PrintInstruction

Spec == Init /\ [][Next]_vars

(***************************************************************************)
(* What the properties below are stated with.                              *)
(***************************************************************************)
\* The value of the n-bit field of w whose lowest bit is lo.
RECURSIVE Field(_, _, _)
Field(w, lo, n) ==
  IF n = 0 THEN 0 ELSE w[lo] + 2 * Field(w, lo + 1, n - 1)

\* The word written as eight hexadecimal digits, the most significant first.
WordOfHex(h) ==
  [k \in BitPos |-> (h[8 - (k \div 4)] \div Pow2(k % 4)) % 2]

\* The string at tokens[i], for an entry parse_command filled.
TokenString(i) == CStr(assembly, tokens[i])

\* translate has returned a word for a line of at least four tokens.
Translated4 == pc = "print" /\ nr_tokens >= 4

RegisterNames == SeqToSet(registers)
\* The index the register table gives a name it holds.
TableIndex(name) == CHOOSE i \in 0..31 : registers[i + 1] = name

\* The documented mnemonics with their format (0 R, 1 R-shift, 2 I) and code.
DocumentedTable == <<
  [m |-> <<"a","d","d">>, type |-> 0, code |-> 32],
  [m |-> <<"s","u","b">>, type |-> 0, code |-> 34],
  [m |-> <<"a","n","d">>, type |-> 0, code |-> 36],
  [m |-> <<"o","r">>, type |-> 0, code |-> 37],
  [m |-> <<"n","o","r">>, type |-> 0, code |-> 39],
  [m |-> <<"s","l","l">>, type |-> 1, code |-> 0],
  [m |-> <<"s","r","l">>, type |-> 1, code |-> 2],
  [m |-> <<"s","r","a">>, type |-> 1, code |-> 3],
  [m |-> <<"a","d","d","i">>, type |-> 2, code |-> 8],
  [m |-> <<"a","n","d","i">>, type |-> 2, code |-> 12],
  [m |-> <<"o","r","i">>, type |-> 2, code |-> 13],
  [m |-> <<"l","w">>, type |-> 2, code |-> 35],
  [m |-> <<"s","w">>, type |-> 2, code |-> 43],
  [m |-> <<"b","e","q">>, type |-> 2, code |-> 4],
  [m |-> <<"b","n","e">>, type |-> 2, code |-> 5]>>

DocumentedEntry(m) ==
  DocumentedTable[CHOOSE i \in 1..Len(DocumentedTable) : DocumentedTable[i].m = m]
DocumentedMnemonics == {DocumentedTable[i].m : i \in 1..Len(DocumentedTable)}

\* The canonical register names in index order 0..31.
CanonicalRegisters == <<
  <<"z","e","r","o">>, <<"a","t">>, <<"v","0">>, <<"v","1">>,
  <<"a","0">>, <<"a","1">>, <<"a","2">>, <<"a","3">>,
  <<"t","0">>, <<"t","1">>, <<"t","2">>, <<"t","3">>,
  <<"t","4">>, <<"t","5">>, <<"t","6">>, <<"t","7">>,
  <<"s","0">>, <<"s","1">>, <<"s","2">>, <<"s","3">>,
  <<"s","4">>, <<"s","5">>, <<"s","6">>, <<"s","7">>,
  <<"t","8">>, <<"t","9">>, <<"k","0">>, <<"k","1">>,
  <<"g","p">>, <<"s","p">>, <<"f","p">>, <<"r","a">>>>

CanonicalNames == SeqToSet(CanonicalRegisters)
CanonicalIndex(name) == CHOOSE i \in 0..31 : CanonicalRegisters[i + 1] = name

\* The number of maximal runs of characters other than the terminator in
\* buf[1..n].
RECURSIVE Runs(_, _)
Runs(buf, n) ==
  IF n = 0 THEN 0
  ELSE Runs(buf, n - 1)
       + (IF buf[n] # NUL /\ (n = 1 \/ buf[n - 1] = NUL) THEN 1 ELSE 0)

\* The words translate returns for the well-formed lines: a documented
\* mnemonic with three operands, every register operand a name of the table.
SuccessfulWords ==
  UNION {{translateWord(detectType(m, 0), ops[1], ops[2], ops[3])
            : ops \in {o \in OperandTuples(m) :
                         \A k \in 1..3 : o[k] \in RegisterNames
                                         \/ o[k] \in ImmTokens \cup ShamtTokens}}
         : m \in Mnemonics}

(***************************************************************************)
(* C1.  For an I-format mnemonic, register operands of the table and any   *)
(* immediate, the word is (imm & 0xFFFF) | (rt << 16) | (rs << 21) |       *)
(* (opcode << 26): the immediate fills bits 0-15 only and rt, rs and the   *)
(* opcode stand in their fields, with tokens [m, rt, imm, rs] for lw and   *)
(* sw and [m, rt, rs, imm] for the others.                                 *)
(***************************************************************************)
C1_ImmediateStaysInField ==
  (/\ Translated4
   /\ TokenString(0) \in SeqToSet(i_instructions)
   /\ TokenString(1) \in RegisterNames)
  =>
  LET mem == TokenString(0) \in {<<"l","w">>, <<"s","w">>}
      rsTok == IF mem THEN TokenString(3) ELSE TokenString(2)
      immTok == IF mem THEN TokenString(2) ELSE TokenString(3)
  IN  rsTok \in RegisterNames =>
        /\ Field(instruction, 0, 16) = strtol(immTok) % 65536
        /\ Field(instruction, 16, 5) = TableIndex(TokenString(1))
        /\ Field(instruction, 21, 5) = TableIndex(rsTok)
        /\ Field(instruction, 26, 6) = DocumentedEntry(TokenString(0)).code

(***************************************************************************)
(* C2.  For an R-format mnemonic and three register names of the table as  *)
(* tokens [m, rd, rs, rt], the word is funct | (rd << 11) | (rt << 16) |   *)
(* (rs << 21): the documented funct in bits 0-5, shamt (bits 6-10) and     *)
(* opcode (bits 26-31) zero.                                               *)
(***************************************************************************)
C2_RFormatPacking ==
  (/\ Translated4
   /\ TokenString(0) \in SeqToSet(r_instructions)
   /\ \A k \in 1..3 : TokenString(k) \in RegisterNames)
  =>
  /\ Field(instruction, 0, 6) = DocumentedEntry(TokenString(0)).code
  /\ Field(instruction, 6, 5) = 0
  /\ Field(instruction, 11, 5) = TableIndex(TokenString(1))
  /\ Field(instruction, 16, 5) = TableIndex(TokenString(3))
  /\ Field(instruction, 21, 5) = TableIndex(TokenString(2))
  /\ Field(instruction, 26, 6) = 0

\* C2's case: sub with three different registers of the table has been packed.
C2_Witness ==
  /\ Translated4
  /\ TokenString(0) = <<"s","u","b">>
  /\ TokenString(1) = <<"t","1">>
  /\ TokenString(2) = <<"s","p">>
  /\ TokenString(3) = <<"k","1">>
  /\ Field(instruction, 21, 5) = 29

(***************************************************************************)
(* C3.  For a shift mnemonic with tokens [m, rd, rt, shamt] and any shift  *)
(* amount, the word has opcode 0, the mnemonic's code in bits 0-5, rd in   *)
(* bits 11-15 and rt in bits 16-20; for shamt in 0..31 bits 6-10 hold it.  *)
(***************************************************************************)
C3_ShamtStaysInField ==
  (/\ Translated4
   /\ TokenString(0) \in SeqToSet(r_shift_instructions)
   /\ TokenString(1) \in RegisterNames
   /\ TokenString(2) \in RegisterNames)
  =>
  /\ Field(instruction, 0, 6) = DocumentedEntry(TokenString(0)).code
  /\ Field(instruction, 11, 5) = TableIndex(TokenString(1))
  /\ Field(instruction, 16, 5) = TableIndex(TokenString(2))
  /\ Field(instruction, 21, 5) = 0
  /\ Field(instruction, 26, 6) = 0
  /\ strtol(TokenString(3)) \in 0..31 =>
       Field(instruction, 6, 5) = strtol(TokenString(3))

(***************************************************************************)
(* C4.  When tokens[0] is none of the 15 mnemonics, what translate returns *)
(* is no word that a successful translation returns.                       *)
(***************************************************************************)
C4_UnknownMnemonicIsNoWord ==
  (/\ pc = "print"
   /\ tokens[0] # NULL
   /\ TokenString(0) \notin DocumentedMnemonics)
  => instruction \notin SuccessfulWords

(***************************************************************************)
(* C5.  A register operand that is no name of the table does not resolve   *)
(* to index 0: the word differs from the word of the same instruction      *)
(* written with register zero in its place.                                *)
(***************************************************************************)
C5_UnknownRegisterIsNotZero ==
  (/\ Translated4
   /\ TokenString(0) \in DocumentedMnemonics
   /\ TokenString(1) \notin RegisterNames)
  => instruction # translateWord(info, <<"z","e","r","o">>,
                                 TokenString(2), TokenString(3))

(***************************************************************************)
(* C6.  The register lookup gives each of the 32 canonical names (zero,    *)
(* at, v0, v1, a0-a3, t0-t7, s0-s7, t8, t9, k0, k1, gp, sp, fp, ra) its    *)
(* own index: an R-format word carries the canonical index of each of its  *)
(* three register tokens, k0 as 26 and k1 as 27.                           *)
(***************************************************************************)
C6_CanonicalRegisterIndices ==
  (/\ Translated4
   /\ TokenString(0) \in SeqToSet(r_instructions)
   /\ \A k \in 1..3 : TokenString(k) \in CanonicalNames)
  =>
  /\ Field(instruction, 11, 5) = CanonicalIndex(TokenString(1))
  /\ Field(instruction, 21, 5) = CanonicalIndex(TokenString(2))
  /\ Field(instruction, 16, 5) = CanonicalIndex(TokenString(3))

(***************************************************************************)
(* C7.  Each documented mnemonic is in exactly one of the three tables,    *)
(* and classifying tokens[0] gives the documented format and code for each *)
(* of the 15 mnemonics and Unknown (-1) for any other string.              *)
(***************************************************************************)
C7_Classification ==
  /\ \A m \in DocumentedMnemonics :
       Cardinality({t \in {1, 2, 3} :
          m \in SeqToSet(CASE t = 1 -> r_instructions
                           [] t = 2 -> r_shift_instructions
                           [] t = 3 -> i_instructions)}) = 1
  /\ (pc \in {"print", "crashed"} /\ highestRead >= 0 /\ tokens[0] # NULL) =>
       IF TokenString(0) \in DocumentedMnemonics
       THEN /\ info.type = DocumentedEntry(TokenString(0)).type
            /\ info.opcode = DocumentedEntry(TokenString(0)).code
       ELSE info.type = -1

\* C7's case: the last entry of the last table has been classified.
C7_Witness ==
  /\ pc = "print"
  /\ tokens[0] # NULL
  /\ TokenString(0) = <<"b","n","e">>
  /\ info = [type |-> 2, opcode |-> 5]

(***************************************************************************)
(* C8.  A documented mnemonic with fewer than four tokens: translate reads *)
(* no entry of tokens[] at or beyond nr_tokens and returns no word.        *)
(***************************************************************************)
C8_ArityIsChecked ==
  (/\ pc \in {"print", "crashed"}
   /\ highestRead >= 0
   /\ nr_tokens \in 1..3
   /\ TokenString(0) \in DocumentedMnemonics)
  => (highestRead < nr_tokens /\ pc # "print")

(***************************************************************************)
(* C9 as stated.  [add, t0, t1, t2] gives the word 0x294C020.              *)
(***************************************************************************)
C9_AsStated ==
  (/\ Translated4
   /\ TokenString(0) = <<"a","d","d">>
   /\ TokenString(1) = <<"t","0">>
   /\ TokenString(2) = <<"t","1">>
   /\ TokenString(3) = <<"t","2">>)
  => instruction = WordOfHex(<<0, 2, 9, 4, 12, 0, 2, 0>>)

(***************************************************************************)
(* C9 amended.  [add, t0, t1, t2] resolves rd = 8, rs = 9, rt = 10 and     *)
(* gives 0x20 | (8 << 11) | (10 << 16) | (9 << 21), which is 0x012A4020.   *)
(***************************************************************************)
C9_AddT0T1T2 ==
  (/\ Translated4
   /\ TokenString(0) = <<"a","d","d">>
   /\ TokenString(1) = <<"t","0">>
   /\ TokenString(2) = <<"t","1">>
   /\ TokenString(3) = <<"t","2">>)
  =>
  /\ Field(instruction, 11, 5) = 8
  /\ Field(instruction, 21, 5) = 9
  /\ Field(instruction, 16, 5) = 10
  /\ instruction = WordOfHex(<<0, 1, 2, 10, 4, 0, 2, 0>>)

\* C9's case: the line add t0 t1 t2 has been translated.
C9_Witness ==
  /\ Translated4
  /\ nr_tokens = 4
  /\ TokenString(0) = <<"a","d","d">>
  /\ TokenString(1) = <<"t","0">>
  /\ TokenString(2) = <<"t","1">>
  /\ TokenString(3) = <<"t","2">>
  /\ Field(instruction, 0, 6) = 32

(***************************************************************************)
(* C10.  In every state of the scan nr_tokens is at most MAX_NR_TOKENS, so *)
(* no token pointer is stored past the end of tokens[]; when the scan ends *)
(* nr_tokens is the number of maximal runs of non-whitespace of the line.  *)
(***************************************************************************)
C10_TokensStayInArray ==
  /\ nr_tokens <= MAX_NR_TOKENS
  /\ pc = "translate" => nr_tokens = Runs(assembly, Len(assembly))

====
